---- MODULE Spec2Model ----
(***************************************************************************)
(* Model of the App component of react-ts-data-fetch (src/src/App.tsx):    *)
(* three pieces of hook state (fetchedPosts, isFetching, error), one       *)
(* startup effect that runs the async function fetchPosts, the HTTP helper *)
(* get that fetchPosts awaits, and the render function of App together     *)
(* with the two presentational components ErrorMessage and BlogPosts.      *)
(*                                                                         *)
(* JavaScript values are records [t, v]: t is the runtime type tag and v   *)
(* the text of the value, so that a number 7 and the string "7" differ.    *)
(* An optional value (a useState without initial value, a variable not yet *)
(* assigned) is a sequence of length 0 (undefined) or 1 (the value).       *)
(***************************************************************************)
EXTENDS Integers, Sequences, FiniteSets, TLC

VARIABLES fetchedPosts, isFetching, error, pc, respOk, data, failure,
          requests, decodes, updates, view, dirty, renders, effectDue, mounted,
          tornDownAt

vars == <<fetchedPosts, isFetching, error, pc, respOk, data, failure,
          requests, decodes, updates, view, dirty, renders, effectDue, mounted,
          tornDownAt>>

-----------------------------------------------------------------------------
(* Bounds of the model *)

MaxPosts == 2

MaxRequests == 3

-----------------------------------------------------------------------------
(* JavaScript values *)

Num(s) == [t |-> "number", v |-> s]

Str(s) == [t |-> "string", v |-> s]

UndefinedValue == [t |-> "undefined", v |-> ""]

\* JavaScript's String(x), the conversion the specification names for the id:
\* the text of a number, "undefined" for undefined, a string as is
String(x) ==
    IF x.t = "number" THEN Str(x.v)
    ELSE IF x.t = "undefined" THEN Str("undefined")
    ELSE x

Unset == <<>>

Some(x) == <<x>>

IsSet(o) == Len(o) = 1

Val(o) == o[1]

Arrays(S, n) == UNION {[1..k -> S] : k \in 0..n}

-----------------------------------------------------------------------------
(* The records on the wire and the values the network can deliver *)

RawIds == {Num("1"), Num("2")}

RawUserIds == {Num("7"), Num("1"), Str("7")}

RawTitles == {Str("T"), UndefinedValue}

RawBodies == {Str("B")}

\* every object the endpoint may put in the array; nothing validates it
RawRecords == [id : RawIds, userId : RawUserIds, title : RawTitles, body : RawBodies]

\* the shape the documentation's schema accepts for one raw post
WellFormedRaw(r) ==
    /\ r.id.t = "number"
    /\ r.userId.t = "number"
    /\ r.title.t = "string"
    /\ r.body.t = "string"

\* a decoded JSON body: an array of objects, or something that is no array
Payloads ==
    {[isArray |-> TRUE, items |-> a] : a \in Arrays(RawRecords, MaxPosts)}
        \cup {[isArray |-> FALSE, items |-> <<>>]}

Err(m) == [isError |-> TRUE, message |-> m]

NotAnError(m) == [isError |-> FALSE, message |-> m]

\* the values a rejected promise of the platform can carry
Failures == {Err("Network down"), Err(""), NotAnError("boom")}

FailedToFetch == "Failed to fetch data."

MapIsNotAFunction == "data.map is not a function"

-----------------------------------------------------------------------------
(* get: the HTTP helper *)

StatusPasses_unchecked(ok) == TRUE

\* if (!response.ok) throw new Error("Failed to fetch data.")
StatusPasses(ok) == ok

-----------------------------------------------------------------------------
(* fetchPosts: the pure parts *)

\* data.map((rawPost) => ({id: rawPost.userId, title: ..., text: rawPost.body}))
Transform(items) ==
    [i \in 1..Len(items) |->
        [id |-> items[i].userId, title |-> items[i].title, text |-> items[i].body]]

RecognizedFailure_any(f) == TRUE

\* error instanceof Error
RecognizedFailure(f) == f.isError

AfterCatch_skipClear == "done"

\* control leaves the try/catch statement and reaches setIsFetching(false)
AfterCatch == "clear"

AfterTry_skipClear == "done"

\* setFetchedPosts is the last statement of the try block
AfterTry == "clear"

-----------------------------------------------------------------------------
(* The hook state *)

InitIsFetching_true == TRUE

\* useState(false)
InitIsFetching == FALSE

EffectRuns_everyRender(n) == TRUE

\* useEffect(..., []): the effect runs after the first render only
EffectRuns(n) == n = 0

Call(name) == [call |-> name, mounted |-> mounted]

-----------------------------------------------------------------------------
(* Rendering *)

NoView == [kind |-> "none", text |-> "", items |-> <<>>]

LoadingView == [kind |-> "loading", text |-> "Loading...", items |-> <<>>]

BlankView == [kind |-> "blank", text |-> "", items |-> <<>>]

\* <aside id="error"> ... <p>{text}</p>
ErrorMessage(text) == [kind |-> "error", text |-> text, items |-> <<>>]

\* one <li key={post.id}> with <h2>{post.title}</h2> and <p>{post.text}</p> per post
BlogPosts(posts) ==
    [kind |-> "posts", text |-> "",
     items |-> [i \in 1..Len(posts) |->
                  [key |-> posts[i].id, h2 |-> posts[i].title, p |-> posts[i].text]]]

\* JavaScript truthiness of a string | undefined
TruthyText(o) == IsSet(o) /\ Val(o) /= ""

\* JavaScript truthiness of an array | undefined: every array is truthy
TruthyArray(o) == IsSet(o)

App_errorWins(fp, fetching, err) ==
    IF fetching THEN LoadingView
    ELSE IF TruthyText(err) THEN ErrorMessage(Val(err))
    ELSE IF TruthyArray(fp) THEN BlogPosts(Val(fp))
    ELSE BlankView

App_emptyIsBlank(fp, fetching, err) ==
    LET c1 == IF TruthyText(err) THEN ErrorMessage(Val(err)) ELSE BlankView
        c2 == IF IsSet(fp) /\ Len(Val(fp)) > 0 THEN BlogPosts(Val(fp)) ELSE c1
    IN  IF fetching THEN LoadingView ELSE c2

\* the body of App after the hooks: content is assigned in source order
App(fp, fetching, err) ==
    LET c1 == IF TruthyText(err) THEN ErrorMessage(Val(err)) ELSE BlankView
        c2 == IF TruthyArray(fp) THEN BlogPosts(Val(fp)) ELSE c1
    IN  IF fetching THEN LoadingView ELSE c2

-----------------------------------------------------------------------------
(* The state machine *)

Init ==
    /\ fetchedPosts = Unset
    /\ isFetching = InitIsFetching
    /\ error = Unset
    /\ pc = "idle"
    /\ respOk = Unset
    /\ data = Unset
    /\ failure = Unset
    /\ requests = 0
    /\ decodes = 0
    /\ updates = <<>>
    /\ view = NoView
    /\ dirty = TRUE
    /\ renders = 0
    /\ effectDue = FALSE
    /\ mounted = TRUE
    /\ tornDownAt = Unset

\* React calls App and commits its output; after the commit the effects whose
\* dependencies changed are due
Render ==
    /\ mounted
    /\ dirty
    /\ view' = App(fetchedPosts, isFetching, error)
    /\ dirty' = FALSE
    /\ renders' = renders + 1
    /\ effectDue' = EffectRuns(renders)
    /\ UNCHANGED <<fetchedPosts, isFetching, error, pc, respOk, data, failure,
                   requests, decodes, updates, mounted>>
    /\ UNCHANGED tornDownAt

\* the effect: setIsFetching(true), then fetchPosts() up to its await, which
\* is get() up to its await: the request is dispatched
StartupEffect ==
    /\ mounted
    /\ effectDue
    /\ requests < MaxRequests
    /\ effectDue' = FALSE
    /\ isFetching' = TRUE
    /\ updates' = Append(updates, Call("setIsFetching(true)"))
    /\ dirty' = TRUE
    /\ requests' = requests + 1
    /\ pc' = "fetch"
    /\ UNCHANGED <<fetchedPosts, error, respOk, data, failure, decodes, view,
                   renders, mounted>>
    /\ UNCHANGED tornDownAt

\* get resumes with a response: the status check, then the call of json()
FetchResolves ==
    /\ pc = "fetch"
    /\ \E ok \in BOOLEAN :
        /\ respOk' = Some(ok)
        /\ IF StatusPasses(ok)
              THEN /\ decodes' = decodes + 1
                   /\ pc' = "json"
                   /\ UNCHANGED failure
              ELSE /\ failure' = Some(Err(FailedToFetch))
                   /\ pc' = "catch"
                   /\ UNCHANGED decodes
    /\ UNCHANGED <<fetchedPosts, isFetching, error, data, requests, updates,
                   view, dirty, renders, effectDue, mounted>>
    /\ UNCHANGED tornDownAt

\* the request itself fails: get rejects with what fetch rejected with
FetchRejects ==
    /\ pc = "fetch"
    /\ \E f \in Failures : failure' = Some(f)
    /\ pc' = "catch"
    /\ UNCHANGED <<fetchedPosts, isFetching, error, respOk, data, requests,
                   decodes, updates, view, dirty, renders, effectDue, mounted>>
    /\ UNCHANGED tornDownAt

\* the body decodes: get returns the decoded value unchanged
JsonResolves ==
    /\ pc = "json"
    /\ \E d \in Payloads : data' = Some(d)
    /\ pc' = "try"
    /\ UNCHANGED <<fetchedPosts, isFetching, error, respOk, failure, requests,
                   decodes, updates, view, dirty, renders, effectDue, mounted>>
    /\ UNCHANGED tornDownAt

\* the body does not decode: get rejects with what json() rejected with
JsonRejects ==
    /\ pc = "json"
    /\ \E f \in Failures : failure' = Some(f)
    /\ pc' = "catch"
    /\ UNCHANGED <<fetchedPosts, isFetching, error, respOk, data, requests,
                   decodes, updates, view, dirty, renders, effectDue, mounted>>
    /\ UNCHANGED tornDownAt

TryMap_setBeforeThrow ==
    /\ pc = "try"
    /\ fetchedPosts' = Some(Transform(Val(data).items))
    /\ updates' = Append(updates, Call("setFetchedPosts"))
    /\ dirty' = mounted
    /\ IF Val(data).isArray
          THEN /\ pc' = AfterTry
               /\ UNCHANGED failure
          ELSE /\ failure' = Some(Err(MapIsNotAFunction))
               /\ pc' = "catch"
    /\ UNCHANGED <<isFetching, error, respOk, data, requests, decodes, view,
                   renders, effectDue, mounted, tornDownAt>>

\* the rest of the try block: data.map(...) and setFetchedPosts(blogPosts);
\* map on a value that is no array throws a TypeError
TryMap ==
    /\ pc = "try"
    /\ IF Val(data).isArray
          THEN /\ fetchedPosts' = Some(Transform(Val(data).items))
               /\ updates' = Append(updates, Call("setFetchedPosts"))
               /\ dirty' = mounted
               /\ pc' = AfterTry
               /\ UNCHANGED failure
          ELSE /\ failure' = Some(Err(MapIsNotAFunction))
               /\ pc' = "catch"
               /\ UNCHANGED <<fetchedPosts, updates, dirty>>
    /\ UNCHANGED <<isFetching, error, respOk, data, requests, decodes, view,
                   renders, effectDue, mounted>>
    /\ UNCHANGED tornDownAt

\* the catch block
Catch ==
    /\ pc = "catch"
    /\ IF RecognizedFailure(Val(failure))
          THEN /\ error' = Some(Val(failure).message)
               /\ updates' = Append(updates, Call("setError"))
               /\ dirty' = mounted
          ELSE UNCHANGED <<error, updates, dirty>>
    /\ pc' = AfterCatch
    /\ UNCHANGED <<fetchedPosts, isFetching, respOk, data, failure, requests,
                   decodes, view, renders, effectDue, mounted>>
    /\ UNCHANGED tornDownAt

\* setIsFetching(false), the last statement of fetchPosts
ClearLoading ==
    /\ pc = "clear"
    /\ isFetching' = FALSE
    /\ updates' = Append(updates, Call("setIsFetching(false)"))
    /\ dirty' = mounted
    /\ pc' = "done"
    /\ UNCHANGED <<fetchedPosts, error, respOk, data, failure, requests,
                   decodes, view, renders, effectDue, mounted>>
    /\ UNCHANGED tornDownAt

Unmount_cancels ==
    /\ mounted
    /\ renders > 0
    /\ ~effectDue
    /\ mounted' = FALSE
    /\ dirty' = FALSE
    /\ view' = NoView
    /\ pc' = IF pc \in {"fetch", "json", "try", "catch", "clear"} THEN "done" ELSE pc
    /\ UNCHANGED <<fetchedPosts, isFetching, error, respOk, data, failure,
                   requests, decodes, updates, renders, effectDue>>
    /\ tornDownAt' = Some(pc)

\* the view is torn down; the effect returns no cleanup, so nothing else happens
Unmount ==
    /\ mounted
    /\ renders > 0
    /\ ~effectDue
    /\ mounted' = FALSE
    /\ dirty' = FALSE
    /\ view' = NoView
    /\ UNCHANGED <<fetchedPosts, isFetching, error, pc, respOk, data, failure,
                   requests, decodes, updates, renders, effectDue>>
    /\ tornDownAt' = Some(pc)

Next ==
    \/ Render
    \/ StartupEffect
    \/ FetchResolves
    \/ FetchRejects
    \/ JsonResolves
    \/ JsonRejects
    \/ TryMap
    \/ Catch
    \/ ClearLoading
    \/ Unmount

Spec == Init /\ [][Next]_vars

\* the event loop runs every ready continuation and React renders every
\* pending update; nothing makes the network answer
FairSpec ==
    /\ Spec
    /\ WF_vars(Render)
    /\ WF_vars(StartupEffect)
    /\ WF_vars(TryMap)
    /\ WF_vars(Catch)
    /\ WF_vars(ClearLoading)

-----------------------------------------------------------------------------
(* Render selection over every combination of the three pieces of state *)

DisplayRecords == [id : RawUserIds, title : RawTitles, text : RawBodies]

ErrorTexts == {"", FailedToFetch, "Network down"}

InitAnyFlags ==
    /\ fetchedPosts \in {Unset} \cup {Some(a) : a \in Arrays(DisplayRecords, MaxPosts)}
    /\ isFetching \in BOOLEAN
    /\ error \in {Unset} \cup {Some(m) : m \in ErrorTexts}
    /\ pc = "idle"
    /\ respOk = Unset
    /\ data = Unset
    /\ failure = Unset
    /\ requests = 0
    /\ decodes = 0
    /\ updates = <<>>
    /\ view = NoView
    /\ dirty = TRUE
    /\ renders = 0
    /\ effectDue = FALSE
    /\ mounted = TRUE
    /\ tornDownAt = Unset

SpecRender == InitAnyFlags /\ [][Render]_vars

\* the view on screen is the render of the current state
Rendered == mounted /\ renders > 0 /\ ~dirty

\* fetchPosts has returned and its last update is on screen
FinalRender == pc = "done" /\ Rendered

-----------------------------------------------------------------------------
(* Claims *)

\* C1: render selection has a fixed precedence for every combination of
\* isFetching, error and fetchedPosts: loading when isFetching, whatever the
\* other two hold; otherwise the records view when fetchedPosts is set, also
\* when an error message is set; otherwise the error view when error holds a
\* message (a non-empty text); otherwise blank content.
C1_RenderPrecedence ==
    Rendered =>
        IF isFetching THEN view.kind = "loading"
        ELSE IF IsSet(fetchedPosts)
            THEN /\ view.kind = "posts"
                 /\ Len(view.items) = Len(Val(fetchedPosts))
        ELSE IF IsSet(error) /\ Val(error) /= ""
            THEN /\ view.kind = "error"
                 /\ view.text = Val(error)
        ELSE view.kind = "blank"

C1_Witness ==
    /\ Rendered
    /\ ~isFetching
    /\ IsSet(fetchedPosts)
    /\ IsSet(error) /\ Val(error) /= ""
    /\ view.kind = "posts"

\* C2 as stated: from startup, the very first render included, until the
\* fetch settles, every render is the loading indicator.
C2_LoadingFromFirstRender ==
    (Rendered /\ pc \in {"idle", "fetch", "json"}) => view.kind = "loading"

\* C2 as amended: the first render, before the startup effect, is the blank
\* content; from the startup effect until the fetch settles every render is
\* the loading indicator.
C2_LoadingFromEffect ==
    Rendered =>
        /\ pc = "idle" => view.kind = "blank"
        /\ pc \in {"fetch", "json"} => view.kind = "loading"

C2_Witness ==
    /\ Rendered
    /\ renders = 2
    /\ pc = "fetch"
    /\ view.kind = "loading"

\* C3: when the network call resolves with an array of n raw records, n >= 0,
\* the final render is the records view with exactly the n records in input
\* order (title and body of each, keyed by its owner id), no error view and
\* no loading indicator; for n = 0 it is the records view with no item.
C3_SuccessRendersRecords ==
    (FinalRender /\ IsSet(data) /\ Val(data).isArray) =>
        LET items == Val(data).items IN
        /\ view.kind = "posts"
        /\ Len(view.items) = Len(items)
        /\ \A i \in 1..Len(items) :
              view.items[i] = [key |-> items[i].userId,
                               h2 |-> items[i].title,
                               p |-> items[i].body]

C3_Witness ==
    /\ FinalRender
    /\ IsSet(data) /\ Val(data).isArray /\ Len(Val(data).items) = 0
    /\ view.kind = "posts"
    /\ view.items = <<>>

\* C4: for every failure that is an Error instance, whatever its message,
\* the message is stored in error and the final render is the error view
\* showing that message, with no post item.
C4_RecognizedFailureShowsMessage ==
    (pc = "done" /\ IsSet(failure) /\ Val(failure).isError) =>
        /\ error = Some(Val(failure).message)
        /\ Rendered =>
              /\ view.kind = "error"
              /\ view.text = Val(failure).message
              /\ view.items = <<>>

\* C5: a failure that is no Error instance leaves error and fetchedPosts
\* unset, the loading flag is still cleared, and the final render is blank.
C5_UnrecognizedFailureIsBlank ==
    (pc = "done" /\ IsSet(failure) /\ ~Val(failure).isError) =>
        /\ error = Unset
        /\ fetchedPosts = Unset
        /\ isFetching = FALSE
        /\ Rendered => view.kind = "blank"

C5_Witness ==
    /\ FinalRender
    /\ IsSet(failure) /\ ~Val(failure).isError
    /\ view.kind = "blank"

\* C6: whenever fetchPosts has finished, setIsFetching(false) is its last
\* state update: it comes after any setFetchedPosts or setError, and no
\* update ever follows it.
C6_ClearLoadingLast ==
    /\ pc = "done" =>
          /\ Len(updates) > 0
          /\ updates[Len(updates)].call = "setIsFetching(false)"
    /\ \A i \in 1..Len(updates) :
          updates[i].call = "setIsFetching(false)" =>
              i = Len(updates) /\ pc = "done"

C6_Witness ==
    /\ pc = "done"
    /\ Len(updates) = 3
    /\ updates[2].call = "setError"
    /\ updates[3].call = "setIsFetching(false)"

\* C7: exactly one request is dispatched per lifetime: the startup effect
\* dispatches one, and no render, success or failure dispatches another.
C7_SingleRequest ==
    /\ requests <= 1
    /\ pc /= "idle" => requests = 1
    /\ (renders > 0 /\ ~effectDue) => requests = 1

C7_Witness ==
    /\ pc = "done"
    /\ renders >= 3
    /\ requests = 1

\* C8: for every well-formed array of raw records the transformer yields an
\* array of equal length and order with id = String(userId), title = title
\* and text = body.
C8_TransformMapsFields ==
    (IsSet(fetchedPosts) /\ IsSet(data)
        /\ \A i \in 1..Len(Val(data).items) : WellFormedRaw(Val(data).items[i])) =>
        LET items == Val(data).items
            posts == Val(fetchedPosts) IN
        /\ Len(posts) = Len(items)
        /\ \A i \in 1..Len(items) :
              /\ posts[i].id = String(items[i].userId)
              /\ posts[i].title = items[i].title
              /\ posts[i].text = items[i].body

\* C9: on a response with a failure status get rejects with an Error whose
\* message is "Failed to fetch data." and the body is never decoded: json()
\* is only called after the status check has passed.
C9_FailureStatusRejectsWithoutDecode ==
    /\ (IsSet(respOk) /\ ~Val(respOk)) =>
          /\ decodes = 0
          /\ failure = Some(Err(FailedToFetch))
          /\ pc \in {"catch", "clear", "done"}
    /\ decodes > 0 => respOk = Some(TRUE)

C9_Witness ==
    /\ respOk = Some(FALSE)
    /\ pc = "catch"
    /\ decodes = 0
    /\ failure = Some(Err(FailedToFetch))

\* C10: the loading state ends only when the network call settles: while the
\* call is outstanding isFetching is true and every render is the loading
\* indicator, however long that lasts; the flag is never cleared while the
\* call is outstanding; once the call has settled, with any outcome,
\* isFetching is eventually false.
C10_LoadingEndsOnlyOnSettle ==
    /\ [](pc \in {"fetch", "json"} =>
            /\ isFetching
            /\ Rendered => view.kind = "loading")
    /\ [][(isFetching /\ ~isFetching') => pc \notin {"idle", "fetch", "json"}]_vars
    /\ (pc \in {"try", "catch"}) ~> (pc = "done" /\ ~isFetching)

C10_Witness ==
    /\ FinalRender
    /\ ~isFetching
    /\ IsSet(data)
    /\ renders >= 3

\* the view was torn down while the request was outstanding
TornDownInFlight == IsSet(tornDownAt) /\ Val(tornDownAt) \in {"fetch", "json"}

LastUpdate == updates[Len(updates)]

\* C11: the fetch is not tied to the view's lifetime: when the view is torn
\* down while the request is outstanding, the later settlement still runs the
\* rest of fetchPosts, which issues its updates against the torn-down view
\* (setFetchedPosts or setError, then setIsFetching(false)); nothing cancels
\* or discards the late completion.
C11_LateCompletionStillUpdates ==
    /\ []((TornDownInFlight /\ pc = "done") =>
            /\ Len(updates) >= 2
            /\ LastUpdate = [call |-> "setIsFetching(false)", mounted |-> FALSE]
            /\ isFetching = FALSE
            /\ (IsSet(data) /\ Val(data).isArray) =>
                  /\ updates[Len(updates) - 1] =
                        [call |-> "setFetchedPosts", mounted |-> FALSE]
                  /\ IsSet(fetchedPosts)
            /\ (IsSet(failure) /\ Val(failure).isError) =>
                  /\ updates[Len(updates) - 1] =
                        [call |-> "setError", mounted |-> FALSE]
                  /\ error = Some(Val(failure).message))
    /\ (TornDownInFlight /\ pc \in {"try", "catch"}) ~> (pc = "done")

C11_Witness ==
    /\ tornDownAt = Some("fetch")
    /\ pc = "done"
    /\ Len(updates) = 3
    /\ updates[2] = [call |-> "setFetchedPosts", mounted |-> FALSE]
    /\ updates[3] = [call |-> "setIsFetching(false)", mounted |-> FALSE]

\* C12: no reachable state holds both an error message and fetched records:
\* at most one of fetchedPosts and error is ever set, because the try block
\* either completes with setFetchedPosts or enters the catch block.
C12_NeverErrorAndRecords ==
    ~(IsSet(fetchedPosts) /\ IsSet(error))

C12_Witness ==
    /\ pc = "done"
    /\ IsSet(data) /\ ~Val(data).isArray
    /\ IsSet(error)
    /\ ~IsSet(fetchedPosts)

\* C13: isFetching is true during one contiguous interval per lifetime: it
\* turns true only at the startup effect, which is called at most once, turns
\* false only when fetchPosts finishes, and after that the state is terminal:
\* isFetching never becomes true again, fetchedPosts and error never change,
\* and the final render stays as it is while the view is mounted.
C13_SingleLoadingInterval ==
    /\ [](Cardinality({i \in 1..Len(updates) :
                          updates[i].call = "setIsFetching(true)"}) <= 1)
    /\ [][/\ (~isFetching /\ isFetching') => (pc = "idle" /\ pc' = "fetch")
          /\ (isFetching /\ ~isFetching') => (pc = "clear" /\ pc' = "done")
          /\ pc = "done" =>
                /\ pc' = "done"
                /\ ~isFetching'
                /\ fetchedPosts' = fetchedPosts
                /\ error' = error
                /\ (Rendered /\ mounted') => view' = view]_vars

C13_Witness ==
    /\ FinalRender
    /\ ~isFetching
    /\ Len(updates) = 3
    /\ updates[1].call = "setIsFetching(true)"
    /\ updates[3].call = "setIsFetching(false)"
    /\ IsSet(fetchedPosts)

====
